---- MODULE Spec2Model ----
(***************************************************************************)
(* pdfiler: a command-line tool that collects image files, validates them, *)
(* transcodes each one and assembles a multi-page PDF (src/pdfiler.py).    *)
(*                                                                         *)
(* Paths are sequences of components; an absolute path starts with "/".    *)
(* The file system maps absolute paths to a file kind and an mtime.  The   *)
(* imaging library is modelled by what it does to each file kind.          *)
(***************************************************************************)
EXTENDS Integers, Sequences, FiniteSets, TLC

VARIABLES
    fs,               \* file system: absolute path -> [kind, mtime]
    fs0,              \* the file system when the run started
    args,             \* positional IMAGE... arguments as given
    input_dir,        \* -d, NoDir when absent
    quality,          \* -q
    output,           \* -o
    dry_run,          \* --dry-run
    remove_source,    \* -r
    verbose,          \* -v
    images,           \* the collected path list
    valid_images,     \* the Validated Image Set
    processed_images, \* the transcoded images, in order
    i,                \* position of the running loop
    pc,               \* position in main
    stdout,           \* lines written to standard output
    stderr,           \* lines written to the error stream
    exit_status,      \* "running", "0" or "1"
    transcoded,       \* paths process_image was called with, in call order
    saved,            \* the save() calls made: [base, append_images, target]
    removed           \* paths os.remove deleted, in call order

vars == <<fs, fs0, args, input_dir, quality, output, dry_run, remove_source,
          verbose, images, valid_images, processed_images, i, pc, stdout,
          stderr, exit_status, transcoded, saved, removed>>

inputs == <<fs0, args, input_dir, quality, output, dry_run, remove_source, verbose>>

----------------------------------------------------------------------------
(* Bounds of the model *)

MaxArgs == 2

MaxTime == 3

(* Program constants *)

MinQuality == 1

MaxQuality == 100

DefaultQuality == 80

----------------------------------------------------------------------------
(* Paths *)

NoDir == <<>>

Cwd == <<"/", "w">>

InDir == <<"/", "d">>

AutoStamp == <<"auto-stamp">>

Names == {"a", "b", "c"}

ExistingDirs == {Cwd, InDir}

Files == {d \o <<n>> : d \in ExistingDirs, n \in Names \cup {"out"}}
             \cup {<<"/", "x", "out">>}

isabs(p) == Len(p) > 0 /\ p[1] = "/"

join(a, p) == IF isabs(p) THEN p ELSE a \o p

RECURSIVE normpath(_)
normpath(p) ==
    IF p = <<>> THEN <<>>
    ELSE IF Len(p) > 1 /\ p[Len(p)] = "."
         THEN normpath(SubSeq(p, 1, Len(p) - 1))
         ELSE Append(normpath(SubSeq(p, 1, Len(p) - 1)), p[Len(p)])

abspath(p) == normpath(join(Cwd, p))

dirname(p) == SubSeq(p, 1, Len(p) - 1)

Absent == [kind |-> "absent", mtime |-> 0]

Now == MaxTime + 1

Stat(f, p) == IF abspath(p) \in DOMAIN f THEN f[abspath(p)] ELSE Absent

Kind(f, p) == Stat(f, p).kind

getmtime(f, p) == Stat(f, p).mtime

RegularKinds == {"empty", "gif", "badcrc", "trunc", "rgb", "rgba", "p", "la", "l",
                 "pdf", "partial"}

isfile(f, p) == Kind(f, p) \in RegularKinds

exists(f, p) == abspath(p) \in ExistingDirs \/ Kind(f, p) # "absent"

----------------------------------------------------------------------------
(* The imaging library, by file kind *)

OpenRaises(k) ==
    CASE k \in {"absent", "dir"} -> "IOError"
      [] k \in {"empty", "pdf", "partial"} -> "UnidentifiedImageError"
      [] OTHER -> "none"

VerifyRaises(k) == IF k = "badcrc" THEN "SyntaxError" ELSE "none"

FormatOf(k) ==
    CASE k = "gif" -> "GIF"
      [] k \in {"rgb", "trunc", "l"} -> "JPEG"
      [] OTHER -> "PNG"

ModeOf(k) ==
    CASE k \in {"rgb", "trunc", "badcrc"} -> "RGB"
      [] k = "rgba" -> "RGBA"
      [] k \in {"p", "gif"} -> "P"
      [] k = "la" -> "LA"
      [] k = "l" -> "L"
      [] OTHER -> "none"

LoadRaises(k) == IF k = "trunc" THEN "IOError" ELSE "none"

JpegModes == {"L", "RGB", "CMYK"}

----------------------------------------------------------------------------
(* is_image_file *)

CaughtByValidator == {"UnidentifiedImageError", "IOError"}

Raised(e) == [raised |-> e, value |-> FALSE]

Returned(v) == [raised |-> "none", value |-> v]

is_image_file(f, file_path) ==
    LET k == Kind(f, file_path)
        e == IF OpenRaises(k) # "none" THEN OpenRaises(k) ELSE VerifyRaises(k)
    IN  IF e = "none" THEN Returned(FormatOf(k) \notin {"GIF", "None"})
        ELSE IF e \in CaughtByValidator THEN Returned(FALSE)
        ELSE Raised(e)

----------------------------------------------------------------------------
(* process_image *)

ConvertedModes == {"RGBA", "P"}

process_image(f, file_path, q) ==
    LET k  == Kind(f, file_path)
        m0 == ModeOf(k)
        conv == m0 \in ConvertedModes
        m1 == IF conv THEN "RGB" ELSE m0
        enc == q # 0
        m2 == m1
        m3 == IF m2 # "RGB" THEN "RGB" ELSE m2
        e  == IF OpenRaises(k) # "none" THEN OpenRaises(k)
              ELSE IF (conv \/ enc \/ m2 # "RGB") /\ LoadRaises(k) # "none"
                   THEN LoadRaises(k)
              ELSE IF enc /\ m1 \notin JpegModes THEN "IOError"
              ELSE "none"
    IN  [failed |-> e # "none",
         src |-> file_path,
         opened |-> m0,
         encoded |-> IF enc /\ e = "none" THEN m1 ELSE "none",
         mode |-> IF e = "none" THEN m3 ELSE "none"]

----------------------------------------------------------------------------
(* get_images_from_directory *)

Perms(S) == {s \in [1..Cardinality(S) -> S] : \A x \in S : \E j \in DOMAIN s : s[j] = x}

listdir(f, directory) == {n \in Names \cup {"out"} : Kind(f, directory \o <<n>>) # "absent"}

RECURSIVE Filter(_, _, _)
Filter(f, directory, l) ==
    IF l = <<>> THEN <<>>
    ELSE LET rest == Filter(f, directory, Tail(l))
         IN  IF is_image_file(f, join(directory, <<Head(l)>>)).value
             THEN <<Head(l)>> \o rest ELSE rest

RECURSIVE InsertByKey(_, _, _, _)
InsertByKey(f, directory, x, s) ==
    IF s = <<>> THEN <<x>>
    ELSE IF getmtime(f, join(directory, <<s[Len(s)]>>)) <= getmtime(f, join(directory, <<x>>))
         THEN Append(s, x)
         ELSE Append(InsertByKey(f, directory, x, SubSeq(s, 1, Len(s) - 1)), s[Len(s)])

Unsorted(f, directory, l) == l

RECURSIVE SortByMtime(_, _, _)
SortByMtime(f, directory, l) ==
    IF l = <<>> THEN <<>>
    ELSE InsertByKey(f, directory, l[Len(l)],
                     SortByMtime(f, directory, SubSeq(l, 1, Len(l) - 1)))

ScanRaises(f, directory, listing) ==
    \E j \in DOMAIN listing :
        is_image_file(f, join(directory, <<listing[j]>>)).raised # "none"

get_images_from_directory(f, directory, listing) ==
    LET files == SortByMtime(f, directory, Filter(f, directory, listing))
    IN  [j \in DOMAIN files |-> join(directory, <<files[j]>>)]

----------------------------------------------------------------------------
(* main *)

Line(tag, n, path) == [tag |-> tag, n |-> n, path |-> path]

Say(tag) == Line(tag, 0, <<>>)

ScanDir == IF input_dir = NoDir THEN Cwd ELSE input_dir

has_absolute_first(imgs) == imgs # <<>> /\ isabs(imgs[1])

has_absolute(imgs) == \E j \in DOMAIN imgs : isabs(imgs[j])

is_auto_stamp_sole(imgs) == imgs = <<AutoStamp>>

is_auto_stamp(imgs) == imgs # <<>> /\ imgs[1] = AutoStamp

join_all(directory, imgs) == [j \in DOMAIN imgs |-> join(directory, imgs[j])]

RECURSIVE existing_abspaths(_, _)
existing_abspaths(f, imgs) ==
    IF imgs = <<>> THEN <<>>
    ELSE IF isfile(f, Head(imgs))
         THEN <<abspath(Head(imgs))>> \o existing_abspaths(f, Tail(imgs))
         ELSE existing_abspaths(f, Tail(imgs))

Exit(code) == pc' = "exited" /\ exit_status' = code

Crash == stderr' = Append(stderr, Say("traceback")) /\ Exit("1")

DieZero(tag, n, path) == stderr' = Append(stderr, Line(tag, n, path)) /\ Exit("0")

Die(tag, n, path) == stderr' = Append(stderr, Line(tag, n, path)) /\ Exit("1")

(* lines 87-114: resolve the arguments to the collected path list *)
Scan(directory, listing, found_tag) ==
    IF ScanRaises(fs, directory, listing)
    THEN Crash /\ UNCHANGED <<images, stdout, i>>
    ELSE LET found == get_images_from_directory(fs, directory, listing)
             out == IF verbose THEN Append(stdout, Line(found_tag, Len(found), directory))
                    ELSE stdout
         IN  /\ images' = found
             /\ stdout' = out
             /\ IF found = <<>>
                THEN Die("no_valid", 0, <<>>) /\ UNCHANGED i
                ELSE pc' = "validate" /\ i' = 1 /\ UNCHANGED <<stderr, exit_status>>

Resolve(resolved) ==
    /\ images' = resolved
    /\ IF resolved = <<>>
       THEN Die("no_valid", 0, <<>>) /\ UNCHANGED <<stdout, i>>
       ELSE pc' = "validate" /\ i' = 1 /\ UNCHANGED <<stdout, stderr, exit_status>>

Collect ==
    /\ pc = "collect"
    /\ \E listing \in Perms(listdir(fs, ScanDir)) :
        IF input_dir # NoDir
        THEN IF args = <<>>
             THEN Die("usage_need_files", 0, <<>>) /\ UNCHANGED <<images, stdout, i>>
             ELSE IF has_absolute(args)
             THEN Die("usage_abs", 0, <<>>) /\ UNCHANGED <<images, stdout, i>>
             ELSE IF is_auto_stamp(args)
             THEN Scan(input_dir, listing, "found_in_dir")
             ELSE Resolve(join_all(input_dir, args))
        ELSE IF is_auto_stamp(args)
             THEN Scan(Cwd, listing, "found_in_cwd")
             ELSE Resolve(existing_abspaths(fs, args))
    /\ UNCHANGED <<fs, inputs, valid_images, processed_images, transcoded, saved, removed>>

(* lines 117-126: one iteration of the validation loop *)
ValidateStep ==
    /\ pc = "validate"
    /\ i <= Len(images)
    /\ LET img_path == images[i]
           r == is_image_file(fs, img_path)
       IN  IF ~isfile(fs, img_path)
           THEN /\ stderr' = IF verbose THEN Append(stderr, Line("not_found", 0, img_path))
                             ELSE stderr
                /\ i' = i + 1
                /\ UNCHANGED <<valid_images, pc, exit_status>>
           ELSE IF r.raised # "none"
           THEN Crash /\ UNCHANGED <<valid_images, i>>
           ELSE IF ~r.value
           THEN /\ stderr' = IF verbose THEN Append(stderr, Line("not_image", 0, img_path))
                             ELSE stderr
                /\ i' = i + 1
                /\ UNCHANGED <<valid_images, pc, exit_status>>
           ELSE /\ valid_images' = Append(valid_images, img_path)
                /\ i' = i + 1
                /\ UNCHANGED <<stderr, pc, exit_status>>
    /\ UNCHANGED <<fs, inputs, images, processed_images, stdout, transcoded, saved, removed>>

(* lines 128-133: the end of validation *)
ValidateEnd ==
    /\ pc = "validate"
    /\ i > Len(images)
    /\ stdout' = IF verbose THEN Append(stdout, Line("after_check", Len(valid_images), <<>>))
                 ELSE stdout
    /\ IF valid_images = <<>>
       THEN Die("no_valid", 0, <<>>) /\ UNCHANGED i
       ELSE pc' = "validated" /\ i' = 1 /\ UNCHANGED <<stderr, exit_status>>
    /\ UNCHANGED <<fs, inputs, images, valid_images, processed_images, transcoded, saved,
                   removed>>

(* lines 135-139: the dry run *)
dry_run_lines0(paths) == [j \in DOMAIN paths |-> Line("dry_item", j - 1, paths[j])]

dry_run_lines(paths) == [j \in DOMAIN paths |-> Line("dry_item", j, paths[j])]

DryRun ==
    /\ pc = "validated"
    /\ dry_run
    /\ stdout' = Append(stdout, Say("dry_header")) \o dry_run_lines(valid_images)
    /\ Exit("0")
    /\ UNCHANGED <<fs, inputs, images, valid_images, processed_images, i, stderr,
                   transcoded, saved, removed>>

(* the transcoding loop with a failed image skipped instead of ending the run *)
ProcessStepSkip ==
    /\ pc = "validated"
    /\ ~dry_run
    /\ i <= Len(valid_images)
    /\ LET file_path == valid_images[i]
           img == process_image(fs, file_path, quality)
       IN  /\ transcoded' = Append(transcoded, file_path)
           /\ processed_images' = IF img.failed THEN processed_images
                                  ELSE Append(processed_images, img)
           /\ stderr' = IF img.failed
                        THEN Append(stderr, Line("process_error", 0, file_path))
                        ELSE stderr
           /\ stdout' = IF verbose /\ ~img.failed
                        THEN Append(stdout, Line("page", i, file_path))
                        ELSE stdout
           /\ i' = i + 1
           /\ UNCHANGED <<pc, exit_status>>
    /\ UNCHANGED <<fs, inputs, images, valid_images, saved, removed>>

(* lines 142-147: one iteration of the transcoding loop *)
ProcessStep ==
    /\ pc = "validated"
    /\ ~dry_run
    /\ i <= Len(valid_images)
    /\ LET file_path == valid_images[i]
           img == process_image(fs, file_path, quality)
       IN  /\ transcoded' = Append(transcoded, file_path)
           /\ IF img.failed
              THEN /\ Die("process_error", 0, file_path)
                   /\ UNCHANGED <<processed_images, stdout, i>>
              ELSE /\ processed_images' = Append(processed_images, img)
                   /\ stdout' = IF verbose THEN Append(stdout, Line("page", i, file_path))
                                ELSE stdout
                   /\ i' = i + 1
                   /\ UNCHANGED <<stderr, pc, exit_status>>
    /\ UNCHANGED <<fs, inputs, images, valid_images, saved, removed>>

(* lines 149-157: the checks before the write *)
ProcessEnd ==
    /\ pc = "validated"
    /\ ~dry_run
    /\ i > Len(valid_images)
    /\ LET output_dir == dirname(abspath(output))
       IN  IF processed_images = <<>>
           THEN Die("none_processed", 0, <<>>)
           ELSE IF output_dir # <<>> /\ ~exists(fs, output_dir)
           THEN Die("no_output_dir", 0, output_dir)
           ELSE pc' = "save" /\ UNCHANGED <<stderr, exit_status>>
    /\ UNCHANGED <<fs, inputs, images, valid_images, processed_images, i, stdout,
                   transcoded, saved, removed>>

(* lines 159-163: the PDF write *)
SaveCallAll == [base |-> processed_images[1],
                append_images |-> processed_images,
                target |-> output]

SaveCall == [base |-> processed_images[1],
             append_images |-> Tail(processed_images),
             target |-> output]

SaveOk ==
    /\ pc = "save"
    /\ Kind(fs, output) # "dir"
    /\ saved' = Append(saved, SaveCall)
    /\ fs' = [fs EXCEPT ![abspath(output)] = [kind |-> "pdf", mtime |-> Now]]
    /\ stdout' = Append(stdout, Line("created", 0, output))
    /\ IF remove_source
       THEN pc' = "remove" /\ i' = 1 /\ UNCHANGED exit_status
       ELSE Exit("0") /\ UNCHANGED i
    /\ UNCHANGED <<inputs, images, valid_images, processed_images, stderr, transcoded,
                   removed>>

(* lines 160, 168-170: the write throws; the target may be left partial *)
SaveFail ==
    /\ pc = "save"
    /\ saved' = Append(saved, SaveCall)
    /\ \E left \in {Stat(fs, output)} \cup
                   (IF Kind(fs, output) = "dir" THEN {}
                    ELSE {[kind |-> "partial", mtime |-> Now]}) :
          fs' = [fs EXCEPT ![abspath(output)] = left]
    /\ Die("save_error", 0, output)
    /\ UNCHANGED <<inputs, images, valid_images, processed_images, i, stdout, transcoded,
                   removed>>

(* lines 164-166, 168-170: one iteration of the source removal loop *)
RemoveStep ==
    /\ pc = "remove"
    /\ i <= Len(valid_images)
    /\ LET img == valid_images[i]
       IN  IF isfile(fs, img)
           THEN /\ fs' = [fs EXCEPT ![abspath(img)] = Absent]
                /\ removed' = Append(removed, img)
                /\ i' = i + 1
                /\ UNCHANGED <<stderr, pc, exit_status>>
           ELSE /\ Die("save_error", 0, img)
                /\ UNCHANGED <<fs, removed, i>>
    /\ UNCHANGED <<inputs, images, valid_images, processed_images, stdout, transcoded,
                   saved>>

(* line 167 and the return of main *)
RemoveEnd ==
    /\ pc = "remove"
    /\ i > Len(valid_images)
    /\ stdout' = Append(stdout, Say("removed_msg"))
    /\ Exit("0")
    /\ UNCHANGED <<fs, inputs, images, valid_images, processed_images, i, stderr,
                   transcoded, saved, removed>>

----------------------------------------------------------------------------
(* The runs of main: every argument list of up to MaxArgs tokens, with and  *)
(* without -d, over a directory holding the files a and b.                  *)

Tokens == {<<"a">>, <<"b">>, AutoStamp, <<"/", "w", "a">>, <<".", "a">>}

ArgLists == UNION {[1..n -> Tokens] : n \in 0..MaxArgs}

AKinds == {"absent", "dir", "empty", "gif", "badcrc", "trunc", "rgb", "la"}

BKinds == {"absent", "rgb"}

Idle ==
    /\ images = <<>>
    /\ valid_images = <<>>
    /\ processed_images = <<>>
    /\ i = 1
    /\ stdout = <<>>
    /\ stderr = <<>>
    /\ exit_status = "running"
    /\ transcoded = <<>>
    /\ saved = <<>>
    /\ removed = <<>>

Init ==
    /\ input_dir \in {NoDir, InDir}
    /\ \E ka \in AKinds, kb \in BKinds :
          fs = [p \in Files |->
                  IF p = ScanDir \o <<"a">> /\ ka # "absent" THEN [kind |-> ka, mtime |-> 2]
                  ELSE IF p = ScanDir \o <<"b">> /\ kb # "absent"
                       THEN [kind |-> kb, mtime |-> 1]
                  ELSE Absent]
    /\ fs0 = fs
    /\ args \in ArgLists
    /\ quality = DefaultQuality
    /\ output \in {<<"out">>, <<"/", "x", "out">>, ScanDir \o <<"a">>}
    /\ dry_run \in BOOLEAN
    /\ remove_source \in BOOLEAN
    /\ verbose \in BOOLEAN
    /\ pc = "collect"
    /\ Idle

Next ==
    \/ Collect
    \/ ValidateStep
    \/ ValidateEnd
    \/ DryRun
    \/ ProcessStep
    \/ ProcessEnd
    \/ SaveOk
    \/ SaveFail
    \/ RemoveStep
    \/ RemoveEnd

Spec == Init /\ [][Next]_vars

----------------------------------------------------------------------------
(* The directory scan alone: auto-stamp over a directory of up to three     *)
(* entries of every kind, with modification times in 1..MaxTime.            *)

ScanKinds == {"absent", "dir", "empty", "gif", "badcrc", "rgb"}

InitScan ==
    /\ input_dir \in {NoDir, InDir}
    /\ \E k \in [Names -> ScanKinds], t \in [Names -> 1..MaxTime] :
          fs = [p \in Files |->
                  IF \E n \in Names : p = ScanDir \o <<n>> /\ k[n] # "absent"
                  THEN LET n == CHOOSE n \in Names : p = ScanDir \o <<n>>
                       IN  [kind |-> k[n], mtime |-> t[n]]
                  ELSE Absent]
    /\ fs0 = fs
    /\ args = <<AutoStamp>>
    /\ quality = DefaultQuality
    /\ output = <<"out">>
    /\ dry_run = FALSE
    /\ remove_source = FALSE
    /\ verbose = FALSE
    /\ pc = "collect"
    /\ Idle

NextScan == Collect

SpecScan == InitScan /\ [][NextScan]_vars

----------------------------------------------------------------------------
(* The transcoder alone: one validated image of every decodable kind, at    *)
(* every quality the option accepts.                                        *)

TranscodeKinds == {"rgb", "rgba", "p", "la", "l", "trunc"}

InitTranscode ==
    /\ input_dir = NoDir
    /\ \E k \in TranscodeKinds :
          fs = [p \in Files |->
                  IF p = Cwd \o <<"a">> THEN [kind |-> k, mtime |-> 1] ELSE Absent]
    /\ fs0 = fs
    /\ args = <<<<"a">>>>
    /\ quality \in MinQuality..MaxQuality
    /\ output = <<"out">>
    /\ dry_run = FALSE
    /\ remove_source = FALSE
    /\ verbose = FALSE
    /\ images = <<Cwd \o <<"a">>>>
    /\ valid_images = images
    /\ processed_images = <<>>
    /\ i = 1
    /\ pc = "validated"
    /\ stdout = <<>>
    /\ stderr = <<>>
    /\ exit_status = "running"
    /\ transcoded = <<>>
    /\ saved = <<>>
    /\ removed = <<>>

NextTranscode == ProcessStep

SpecTranscode == InitTranscode /\ [][NextTranscode]_vars

----------------------------------------------------------------------------
(* Properties *)

Tags(lines) == {lines[j].tag : j \in DOMAIN lines}

Last(s) == s[Len(s)]

WriteSucceeded == "created" \in Tags(stdout)

AlphaOrPaletteModes == {"RGBA", "P", "LA", "PA"}

NoEffects == transcoded = <<>> /\ saved = <<>> /\ removed = <<>> /\ fs = fs0

(* C1: every list of images passed to the PDF writer (the base image        *)
(* followed by append_images) has at least one element, as many elements as *)
(* the Validated Image Set, and its j-th element is the transcoding of the  *)
(* j-th validated path.                                                     *)
C1_PagesMatchValidated ==
    \A c \in DOMAIN saved :
        LET pages == <<saved[c].base>> \o saved[c].append_images
        IN  /\ Len(pages) >= 1
            /\ Len(pages) = Len(valid_images)
            /\ \A j \in DOMAIN pages :
                  /\ pages[j].src = valid_images[j]
                  /\ pages[j] = process_image(fs0, valid_images[j], quality)
                  /\ ~pages[j].failed

C1_Witness ==
    /\ saved # <<>>
    /\ Len(valid_images) = 2
    /\ valid_images[1] # valid_images[2]
    /\ Len(saved[1].append_images) = 1

(* C2: after a run with -r whose PDF write succeeded, the run has finished  *)
(* successfully, every validated source file is gone, no other file was     *)
(* touched and the output PDF exists.                                       *)
C2_RemovesExactlyValidated ==
    (pc = "exited" /\ remove_source /\ WriteSucceeded) =>
        /\ exit_status = "0"
        /\ Kind(fs, output) = "pdf"
        /\ \A p \in Files \ {abspath(output)} :
              fs[p] = IF \E j \in DOMAIN valid_images : abspath(valid_images[j]) = p
                      THEN Absent ELSE fs0[p]

(* C3 as stated: a successful dry run prints exactly the N indexed lines    *)
(* and nothing else, and has no effect on the file system.                  *)
C3_DryRunPrintsExactlyNLines ==
    (pc = "exited" /\ dry_run /\ exit_status = "0") =>
        /\ stdout = [j \in DOMAIN valid_images |-> Line("dry_item", j, valid_images[j])]
        /\ NoEffects

(* C3 as amended: with --dry-run nothing is transcoded, written or deleted; *)
(* once validation has left N >= 1 images the run exits with status 0; and  *)
(* its standard output ends with one header line followed by exactly N      *)
(* lines indexed 1..N in validated order, preceded only by the progress     *)
(* lines of -v (none without -v).                                           *)
C3_DryRunHeaderThenNLines ==
    /\ [](dry_run =>
            /\ NoEffects
            /\ (pc = "validated" => Len(valid_images) >= 1)
            /\ (pc = "exited" /\ exit_status = "0" =>
                  LET n == Len(valid_images)
                      k == Len(stdout)
                  IN  /\ n >= 1
                      /\ k >= n + 1
                      /\ stdout[k - n] = Say("dry_header")
                      /\ \A j \in 1..n :
                            stdout[k - n + j] = Line("dry_item", j, valid_images[j])
                      /\ \A j \in 1..(k - n - 1) :
                            stdout[j].tag \in {"found_in_dir", "found_in_cwd", "after_check"}
                      /\ (~verbose => k = n + 1)))
    /\ [][(dry_run /\ pc = "validated") => (pc' = "exited" /\ exit_status' = "0")]_vars

C3_Witness ==
    /\ pc = "exited"
    /\ dry_run
    /\ remove_source
    /\ exit_status = "0"
    /\ Len(valid_images) = 2
    /\ valid_images[1] # valid_images[2]

(* C4: with -d and an absolute positional argument at any position, main    *)
(* exits with status 1 and the usage diagnostic, and nothing is scanned,    *)
(* validated, transcoded, written or deleted.                               *)
C4_AbsoluteWithDirRejected ==
    (input_dir # NoDir /\ \E j \in DOMAIN args : isabs(args[j])) =>
        /\ pc \in {"collect", "exited"}
        /\ (pc = "exited" => exit_status = "1" /\ stderr = <<Say("usage_abs")>>)
        /\ stdout = <<>>
        /\ images = <<>>
        /\ valid_images = <<>>
        /\ NoEffects

C4_Witness ==
    /\ pc = "exited"
    /\ input_dir # NoDir
    /\ Len(args) = 2
    /\ args[1] = AutoStamp
    /\ isabs(args[2])
    /\ exit_status = "1"

UsageError == input_dir # NoDir /\ (args = <<>> \/ \E j \in DOMAIN args : isabs(args[j]))

ScanCrashes ==
    \E n \in listdir(fs0, ScanDir) : is_image_file(fs0, ScanDir \o <<n>>).raised # "none"

IsScanResult(imgs) ==
    \E l \in Perms(listdir(fs0, ScanDir)) : imgs = get_images_from_directory(fs0, ScanDir, l)

ArgumentPaths ==
    IF input_dir # NoDir THEN [j \in DOMAIN args |-> input_dir \o args[j]]
    ELSE existing_abspaths(fs0, args)

ScanOutcome ==
    IF ScanCrashes THEN pc = "exited" /\ Last(stderr) = Say("traceback") /\ images = <<>>
    ELSE IsScanResult(images)

(* C5 as stated: once the arguments are resolved without a usage error, the *)
(* collected list is the directory scan exactly when the sole argument is   *)
(* auto-stamp, and otherwise it is the list of the argument paths.          *)
C5_ScanOnlyWhenSoleAutoStamp ==
    (pc # "collect" /\ ~UsageError) =>
        IF args = <<AutoStamp>> THEN ScanOutcome ELSE images = ArgumentPaths

(* C5 as amended: the collected list is the directory scan (of the -d       *)
(* directory if given, else of the working directory) exactly when the      *)
(* first argument is auto-stamp, whatever follows it; otherwise it is the   *)
(* list of the argument paths, joined onto the base directory with -d, and  *)
(* without -d the absolute paths of the arguments that are regular files.   *)
C5_ScanWhenFirstAutoStamp ==
    (pc # "collect" /\ ~UsageError) =>
        IF args # <<>> /\ args[1] = AutoStamp THEN ScanOutcome ELSE images = ArgumentPaths

C5_Witness ==
    /\ pc = "validate"
    /\ Len(args) = 2
    /\ args[1] = AutoStamp
    /\ args[2] = <<"a">>
    /\ images = <<ScanDir \o <<"b">>>>

(* C6: the directory scan returns exactly the entries is_image_file         *)
(* accepts, each joined onto the directory and listed once, in ascending    *)
(* order of modification time.                                              *)
C6_ScanSortedByMtime ==
    (pc # "collect" /\ ~ScanCrashes) =>
        LET accepted == {n \in listdir(fs0, ScanDir) :
                            is_image_file(fs0, ScanDir \o <<n>>).value}
        IN  /\ {images[j] : j \in DOMAIN images} = {ScanDir \o <<n>> : n \in accepted}
            /\ Len(images) = Cardinality(accepted)
            /\ \A j, k \in DOMAIN images :
                  j < k => getmtime(fs0, images[j]) <= getmtime(fs0, images[k])

C6_Witness ==
    /\ pc = "validate"
    /\ images = <<ScanDir \o <<"c">>, ScanDir \o <<"a">>, ScanDir \o <<"b">>>>
    /\ getmtime(fs0, images[1]) < getmtime(fs0, images[2])
    /\ getmtime(fs0, images[2]) < getmtime(fs0, images[3])

Diagnostics == {"usage_need_files", "usage_abs", "no_valid", "process_error",
                "none_processed", "no_output_dir", "save_error", "traceback"}

(* C7: main exits with status 0 exactly when a dry run listed at least one  *)
(* validated image or the PDF write succeeded and, with -r, every validated *)
(* file was deleted; every other run exits with status 1 and its last line  *)
(* on the error stream is a diagnostic.                                     *)
C7_ExitStatus ==
    /\ (pc # "exited" => exit_status = "running")
    /\ (pc = "exited" =>
          /\ exit_status \in {"0", "1"}
          /\ (exit_status = "0" <=>
                \/ (dry_run /\ "dry_item" \in Tags(stdout))
                \/ (WriteSucceeded /\ (remove_source => Len(removed) = Len(valid_images))))
          /\ (exit_status = "1" => stderr # <<>> /\ Last(stderr).tag \in Diagnostics))

C7_Witness ==
    /\ pc = "exited"
    /\ exit_status = "1"
    /\ WriteSucceeded
    /\ removed # <<>>
    /\ Last(stderr).tag = "save_error"

RECURSIVE Accepted(_)
Accepted(paths) ==
    IF paths = <<>> THEN <<>>
    ELSE IF isfile(fs0, Head(paths)) /\ is_image_file(fs0, Head(paths)).value
         THEN <<Head(paths)>> \o Accepted(Tail(paths))
         ELSE Accepted(Tail(paths))

(* C8: no exception escapes is_image_file, so no run ends in an uncaught    *)
(* exception; validation that has ended left the order-preserving           *)
(* subsequence of accepted paths, and it ended the run only when that       *)
(* subsequence is empty.                                                    *)
C8_ValidationNeverAborts ==
    /\ "traceback" \notin Tags(stderr)
    /\ (pc \in {"validated", "save", "remove"} =>
          valid_images = Accepted(images) /\ valid_images # <<>>)
    /\ (pc = "exited" /\ images # <<>> /\ Accepted(images) # <<>> =>
          valid_images = Accepted(images))

(* C9: process_image is called on the validated paths in order; a call that *)
(* fails is the last one, the run has then exited with status 1 with every  *)
(* earlier image transcoded and nothing written; and as long as save() has  *)
(* not been called the file system is unchanged and nothing is deleted.     *)
C9_FailFast ==
    /\ Len(transcoded) <= Len(valid_images)
    /\ \A k \in DOMAIN transcoded :
          /\ transcoded[k] = valid_images[k]
          /\ process_image(fs0, transcoded[k], quality).failed =>
                /\ k = Len(transcoded)
                /\ pc = "exited"
                /\ exit_status = "1"
                /\ Len(processed_images) = k - 1
                /\ saved = <<>>
    /\ (saved = <<>> => fs = fs0 /\ removed = <<>>)

C9_Witness ==
    /\ pc = "exited"
    /\ Len(valid_images) = 2
    /\ Len(transcoded) = 1
    /\ processed_images = <<>>
    /\ exit_status = "1"
    /\ Kind(fs0, valid_images[2]) = "rgb"

(* C10: every image that can be loaded is transcoded: it is re-encoded at   *)
(* the requested quality, it comes back in the three-channel model, and one *)
(* opened in a mode with an alpha channel or a palette was converted to the *)
(* three-channel model before the re-encode.                                *)
C10_AlphaOrPaletteConverted ==
    \A k \in DOMAIN transcoded :
        LoadRaises(Kind(fs0, transcoded[k])) = "none" =>
            /\ Len(processed_images) >= k
            /\ processed_images[k].mode = "RGB"
            /\ processed_images[k].encoded # "none"
            /\ (processed_images[k].opened \in AlphaOrPaletteModes =>
                  processed_images[k].encoded = "RGB")

====
